---- MODULE Spec2Model ----
(***************************************************************************)
(* A model of e2e/sc-2450/server.py: the HTTP server that replays a        *)
(* captured chunked+gzip response in two socket writes.                    *)
(*                                                                         *)
(* The program is a single-threaded http.server.HTTPServer with one        *)
(* BaseHTTPRequestHandler subclass.  The state is the main thread's        *)
(* position (serve_forever / finally / exited), the one connection being   *)
(* handled with the handler object's fields, the client connections        *)
(* waiting in the listen backlog, and the bytes written to the connection. *)
(* Bytes are integers 0..255; text is encoded as latin-1.                  *)
(***************************************************************************)
EXTENDS Integers, Sequences, FiniteSets, TLC

VARIABLES
    pc,               \* main thread: "serve", "finally", "unwind", "exited"
    listening,        \* the listening socket is open
    server_closed,    \* server.server_close() has been executed
    exit_code,        \* process exit status, -1 while the process runs
    pending,          \* exception travelling out of the main module
    signals,          \* signals delivered so far (sequence of their names)
    opened,           \* connections clients have opened so far
    backlog,          \* connections waiting in the listen backlog
    active,           \* connections accepted and not yet shut down
    hpc,              \* handler position on the current connection
    close_connection, \* handler.close_connection
    request_version,  \* handler.request_version
    command,          \* handler.command
    connection,       \* handler.headers.get("Connection", "") of the request
    has_buffer,       \* hasattr(handler, "_headers_buffer")
    headers_buffer,   \* handler._headers_buffer: a list of byte strings
    out,              \* bytes of the write in progress not yet sent
    calls,            \* wfile.write calls on the current connection
    sends,            \* socket send() results for the current response
    reqs,             \* method and request-line word count of the requests read
    served,           \* completed responses on the current connection
    partials,         \* short send() results so far for the current response
    last_end          \* why the last connection ended, "none" while one is open

vars == << pc, listening, server_closed, exit_code, pending, signals, opened,
           backlog, active, hpc, close_connection, request_version, command,
           connection, has_buffer, headers_buffer, out, calls, sends, reqs, served, partials,
           last_end >>

(***************************************************************************)
(* Bounds of the model.                                                    *)
(***************************************************************************)
MaxClients == 2
MaxReqs == 3
MaxSignals == 2
MaxPartials == 1

(***************************************************************************)
(* Bytes and text.                                                         *)
(***************************************************************************)
CR == 13
LF == 10

\* The printable ASCII characters in code order: 32 (space) to 95, and 97 to 126.
Printable32 == " !\"#$%&'()*+,-./0123456789:;<=>?@ABCDEFGHIJKLMNOPQRSTUVWXYZ[\\]^_"
Printable97 == "abcdefghijklmnopqrstuvwxyz{|}~"

CharAt(s, i) == SubSeq(s, i, i)

CharSet == { CharAt(Printable32, i) : i \in 1..Len(Printable32) }
             \cup { CharAt(Printable97, i) : i \in 1..Len(Printable97) }
             \cup { "\r", "\n" }

\* ord(ch) for the characters the program writes.
Ord == [ ch \in CharSet |->
           IF ch = "\r" THEN CR
           ELSE IF ch = "\n" THEN LF
           ELSE IF \E i \in 1..Len(Printable32) : CharAt(Printable32, i) = ch
                THEN 31 + (CHOOSE i \in 1..Len(Printable32) : CharAt(Printable32, i) = ch)
                ELSE 96 + (CHOOSE i \in 1..Len(Printable97) : CharAt(Printable97, i) = ch) ]

\* chr(n) for 32 <= n <= 126, n # 96
Chr(n) == IF n < 96 THEN CharAt(Printable32, n - 31) ELSE CharAt(Printable97, n - 96)

\* str.encode("latin-1"): one byte per character.
Encode(s) == [ i \in 1..Len(s) |-> Ord[CharAt(s, i)] ]

RECURSIVE Join(_)
\* b"".join(list)
Join(list) == IF list = << >> THEN << >> ELSE Head(list) \o Join(Tail(list))

\* bytes[lo:hi] with Python's 0-based half-open slice, clipped to the length.
Slice(bytes, lo, hi) == SubSeq(bytes, lo + 1, IF hi < Len(bytes) THEN hi ELSE Len(bytes))

(***************************************************************************)
(* The fixed response catalog.                                             *)
(***************************************************************************)
headers == <<
    << "Content-Encoding", "gzip" >>,
    << "Set-Cookie", "glide_user=\"\"; Expires=Thu, 01-Jan-1970 00:00:10 GMT; Path=/; HttpOnly" >>,
    << "Set-Cookie", "glide_user_session=\"\"; Expires=Thu, 01-Jan-1970 00:00:10 GMT; Path=/; HttpOnly" >>,
    << "X-Is-Logged-In", "false" >>,
    << "X-Transaction-ID", "7cba67127310" >>,
    << "Pragma", "no-store,no-cache" >>,
    << "Cache-control", "no-cache,no-store,must-revalidate,max-age=-1" >>,
    << "Expires", "0" >>,
    << "Content-Type", "application/json;charset=UTF-8" >>,
    << "Transfer-Encoding", "chunked" >>,
    << "Date", "Thu, 23 Apr 2020 10:17:02 GMT" >>,
    << "Server", "ServiceNow" >> >>

stats_headers == <<
    << "Set-Cookie", "JSESSIONID=014F24618731E4C4CED40B8288E4CE62; Path=/; HttpOnly" >>,
    << "Pragma", "no-store,no-cache" >>,
    << "Cache-control", "no-cache,no-store,must-revalidate,max-age=-1" >>,
    << "Expires", "0" >>,
    << "Content-Type", "text/html" >>,
    << "Transfer-Encoding", "chunked" >>,
    << "Date", "Thu, 23 Apr 2020 10:16:28 GMT" >>,
    << "Server", "ServiceNow" >> >>

\* A handler that answers as an HTTP/1.0 server.
protocol_version_10 == "HTTP/1.0"

protocol_version == "HTTP/1.1"
server_version == "ServiceNow"

\* Hexadecimal digits a..f and one byte written as two hexadecimal digits.
Xa == 10
Xb == 11
Xc == 12
Xd == 13
Xe == 14
Xf == 15
H(hi, lo) == 16 * hi + lo

\* bytearray.fromhex("61 0d 0a 1f 8b ..."), row for row as in the source.
data_fromhex == <<
    H(6,1), H(0,Xd), H(0,Xa), H(1,Xf), H(8,Xb), H(0,8), H(0,0), H(0,0), H(0,0), H(0,0), H(0,0), H(0,0), H(0,0), H(0,Xd),
    H(0,Xa), H(3,3), H(3,4), H(0,Xd), H(0,Xa), H(Xa,Xb), H(5,6), H(4,Xa), H(Xc,Xc), H(4,Xb), H(2,9), H(Xc,Xa), H(Xc,Xf), H(4,Xc),
    H(5,1), H(Xb,2), H(Xa,Xa), H(5,6), H(Xc,Xa), H(Xc,Xd), H(Xc,Xc), H(8,Xb), H(2,Xf), H(4,Xb), H(2,Xd), H(2,Xa), H(Xc,Xe), H(Xc,Xc),
    H(Xc,Xf), H(5,3), H(Xb,2), H(5,2), H(3,2), H(Xd,1), H(3,3), H(Xd,0), H(3,3), H(5,0), H(Xa,Xa), H(Xd,5), H(5,1), H(Xc,Xa),
    H(Xc,Xc), H(2,Xf), H(Xc,6), H(2,9), H(5,Xb), H(0,Xb), H(0,0), H(3,7), H(5,7), H(Xe,Xa), H(1,Xd), H(4,1), H(0,0), H(0,0),
    H(0,0), H(0,Xd), H(0,Xa), H(3,0), H(0,Xd), H(0,Xa), H(0,Xd), H(0,Xa) >>

\* The fault toggle switched on.
bad_start_on == TRUE

\* bad_start = False
bad_start == FALSE

\* if bad_start: self.data[0] = 0
data == IF bad_start THEN [ data_fromhex EXCEPT ![1] = 0 ] ELSE data_fromhex

(***************************************************************************)
(* Requests.  A request is its method, the version on its request line     *)
(* ("HTTP/0.9" for a request line of two words) and its Connection header. *)
(* parse_request rejects a two-word request line whose method is not GET.  *)
(***************************************************************************)
Methods == {"GET", "HEAD"}
Versions == {"HTTP/0.9", "HTTP/1.0", "HTTP/1.1"}
ConnectionTokens == {"", "close", "keep-alive"}

Requests == { r \in [method : Methods, version : Versions, connection : ConnectionTokens] :
                r.version = "HTTP/0.9" => r.method = "GET" }

\* The (major, minor) pair parse_request compares.
VersionNumber(v) ==
    CASE v = "HTTP/0.9" -> << 0, 9 >>
      [] v = "HTTP/1.0" -> << 1, 0 >>
      [] v = "HTTP/1.1" -> << 1, 1 >>

AtLeast11(v) == VersionNumber(v)[1] > 1 \/ (VersionNumber(v)[1] = 1 /\ VersionNumber(v)[2] >= 1)

\* close_connection as parse_request leaves it.
parse_request_close(r) ==
    LET byVersion == IF r.version = "HTTP/0.9" THEN TRUE
                     ELSE ~(AtLeast11(r.version) /\ AtLeast11(protocol_version))
    IN  IF r.connection = "close" THEN TRUE
        ELSE IF r.connection = "keep-alive" /\ AtLeast11(protocol_version) THEN FALSE
        ELSE byVersion

(***************************************************************************)
(* The handler object and the BaseHTTPRequestHandler methods the program   *)
(* calls.  A handler value h carries request_version (ver),                *)
(* close_connection (cc), whether _headers_buffer exists (has) and its     *)
(* contents (list).                                                        *)
(***************************************************************************)
Handler == [ ver |-> request_version, cc |-> close_connection,
             has |-> has_buffer, list |-> headers_buffer ]

\* The reason phrase of BaseHTTPRequestHandler.responses.
Reason(code) == CASE code = 200 -> "OK"

\* The dates date_time_string() may return for the current time.
Clock == { "Sun, 01 Nov 2026 17:07:22 GMT" }

RECURSIVE Lower(_)
\* str.lower() on ASCII text.
Lower(s) ==
    IF s = "" THEN ""
    ELSE LET ch == SubSeq(s, 1, 1)
             lo == IF ch \in CharSet /\ Ord[ch] >= 65 /\ Ord[ch] <= 90
                   THEN Chr(Ord[ch] + 32) ELSE ch
         IN  lo \o Lower(SubSeq(s, 2, Len(s)))

send_response_only(h, code) ==
    IF h.ver # "HTTP/0.9"
    THEN [ h EXCEPT !.has = TRUE,
                    !.list = Append(IF h.has THEN h.list ELSE << >>,
                                    Encode(protocol_version \o " " \o ToString(code)
                                           \o " " \o Reason(code) \o "\r\n")) ]
    ELSE h

send_header(h, keyword, value) ==
    LET h1 == IF h.ver # "HTTP/0.9"
              THEN [ h EXCEPT !.has = TRUE,
                              !.list = Append(IF h.has THEN h.list ELSE << >>,
                                              Encode(keyword \o ": " \o value \o "\r\n")) ]
              ELSE h
    IN  IF Lower(keyword) = "connection"
        THEN IF Lower(value) = "close" THEN [ h1 EXCEPT !.cc = TRUE ]
             ELSE IF Lower(value) = "keep-alive" THEN [ h1 EXCEPT !.cc = FALSE ]
             ELSE h1
        ELSE h1

\* send_response: the status line, then the Server and Date headers.
send_response(h, code, now) ==
    send_header(send_header(send_response_only(h, code), "Server", server_version),
                "Date", now)

RECURSIVE SendHeaders(_, _)
\* for header in table: self.send_header(header[0], header[1])
SendHeaders(h, table) ==
    IF table = << >> THEN h
    ELSE SendHeaders(send_header(h, Head(table)[1], Head(table)[2]), Tail(table))

\* end_headers up to the flush: the blank line joins the buffer.
end_headers(h) ==
    IF h.ver # "HTTP/0.9"
    THEN [ h EXCEPT !.has = TRUE,
                    !.list = Append(IF h.has THEN h.list ELSE << >>, << CR, LF >>) ]
    ELSE h

\* do_HEAD up to the write of flush_headers.
do_HEAD_buffer(h, now) == end_headers(SendHeaders(send_response(h, 200, now), stats_headers))

\* do_GET up to the last send_header.
do_GET_headers(h) == SendHeaders(send_response_only(h, 200), headers)

\* Slices that are off by one.
do_GET_first_part_14 == Slice(data, 0, 14)
do_GET_first_part_16 == Slice(data, 0, 16)
do_GET_remainder_16 == Slice(data, 16, Len(data))

\* self.data[0:15]
do_GET_first_part == Slice(data, 0, 15)

\* self.data[15:]
do_GET_remainder == Slice(data, 15, Len(data))

\* A buffer that is not reset.
do_GET_reset_kept(list) == list

\* self._headers_buffer = [] after the first write
do_GET_reset(list) == << >>

(***************************************************************************)
(* The socket: a blocking sendall loops over send(), which may accept      *)
(* fewer bytes than it was given.                                          *)
(***************************************************************************)
\* The short counts send() may return for n bytes (besides n itself).
ShortSends(n) == { k \in { n \div 2 } : k >= 1 /\ k < n }

SendSizes == { Len(out) } \cup (IF partials < MaxPartials THEN ShortSends(Len(out)) ELSE {})

\* What sendall still has to send after send() took k bytes.
sendall_rest(bytes, k) == SubSeq(bytes, k + 1, Len(bytes))

WritePositions == { "head_w", "get_w1", "get_w2" }

(***************************************************************************)
(* The initial state: the server is constructed (bound and listening),     *)
(* the SIGTERM handler installed, and serve_forever is running.            *)
(***************************************************************************)
Init ==
    /\ pc = "serve"
    /\ listening = TRUE
    /\ server_closed = FALSE
    /\ exit_code = -1
    /\ pending = "none"
    /\ signals = << >>
    /\ opened = 0
    /\ backlog = 0
    /\ active = 0
    /\ hpc = "none"
    /\ close_connection = TRUE
    /\ request_version = ""
    /\ command = ""
    /\ connection = ""
    /\ has_buffer = FALSE
    /\ headers_buffer = << >>
    /\ out = << >>
    /\ calls = << >>
    /\ sends = << >>
    /\ reqs = << >>
    /\ served = 0
    /\ partials = 0
    /\ last_end = "none"

mainVars == << pc, listening, server_closed, exit_code, pending, signals >>
clientVars == << opened, backlog >>
handlerVars == << close_connection, request_version, command, connection, has_buffer,
                 headers_buffer >>
logVars == << calls, sends, reqs, served, partials >>

\* The handler object is gone: its fields read as on a fresh one, and the
\* record of its connection is dropped.
HandlerGone ==
    /\ hpc' = "none"
    /\ close_connection' = TRUE
    /\ request_version' = ""
    /\ command' = ""
    /\ connection' = ""
    /\ has_buffer' = FALSE
    /\ headers_buffer' = << >>
    /\ out' = << >>
    /\ calls' = << >>
    /\ sends' = << >>
    /\ reqs' = << >>
    /\ served' = 0
    /\ partials' = 0

\* shutdown_request: the current connection is closed and the loop is free.
EndConnection(why) ==
    /\ active' = active - 1
    /\ last_end' = why
    /\ HandlerGone

\* A client's connect() completes while the listening socket is open.
Connect ==
    /\ listening
    /\ opened < MaxClients
    /\ opened' = opened + 1
    /\ backlog' = backlog + 1
    /\ UNCHANGED << mainVars, active, hpc, handlerVars, out, logVars, last_end >>

\* A server that accepts while a handler runs, as a threading server does.
CanAccept_threading == TRUE

\* HTTPServer, not a threading server: the loop accepts when no handler runs.
CanAccept == active = 0

\* serve_forever accepts a connection and constructs its handler.
Accept ==
    /\ pc = "serve"
    /\ CanAccept
    /\ backlog > 0
    /\ backlog' = backlog - 1
    /\ active' = active + 1
    /\ hpc' = "read"
    /\ close_connection' = TRUE
    /\ request_version' = ""
    /\ command' = ""
    /\ connection' = ""
    /\ has_buffer' = FALSE
    /\ headers_buffer' = << >>
    /\ out' = << >>
    /\ calls' = << >>
    /\ sends' = << >>
    /\ reqs' = << >>
    /\ served' = 0
    /\ partials' = 0
    /\ last_end' = "none"
    /\ UNCHANGED << mainVars, opened >>

\* handle_one_request reads and parses a request and picks do_GET or do_HEAD.
ReadRequest(r) ==
    /\ pc = "serve"
    /\ active > 0
    /\ hpc = "read"
    /\ Len(reqs) < MaxReqs
    /\ reqs' = Append(reqs, [ method |-> r.method, words |-> IF r.version = "HTTP/0.9" THEN 2 ELSE 3 ])
    /\ sends' = << >>
    /\ partials' = 0
    /\ request_version' = r.version
    /\ command' = r.method
    /\ connection' = r.connection
    /\ close_connection' = parse_request_close(r)
    /\ hpc' = IF r.method = "GET" THEN "do_GET" ELSE "do_HEAD"
    /\ UNCHANGED << mainVars, clientVars, active, has_buffer, headers_buffer, out,
                    calls, served, last_end >>

\* The client closed: readline returns nothing and the handler ends.
ClientEOF ==
    /\ pc = "serve"
    /\ active > 0
    /\ hpc = "read"
    /\ EndConnection("client_eof")
    /\ UNCHANGED << mainVars, clientVars >>

\* wfile.write(bytes): the call is logged and sendall starts.
StartWrite(bytes) ==
    /\ calls' = Append(calls, [ req |-> Len(reqs), bytes |-> bytes ])
    /\ out' = bytes

do_HEAD(now) ==
    /\ pc = "serve"
    /\ active > 0
    /\ hpc = "do_HEAD"
    /\ LET h == do_HEAD_buffer(Handler, now)
       IN  /\ has_buffer' = h.has
           /\ headers_buffer' = h.list
           /\ close_connection' = h.cc
           /\ StartWrite(Join(h.list))
    /\ hpc' = "head_w"
    /\ UNCHANGED << mainVars, clientVars, active, request_version, command, connection,
                    sends, reqs, served, partials, last_end >>

\* do_GET to its first write; without _headers_buffer the append raises.
do_GET ==
    /\ pc = "serve"
    /\ active > 0
    /\ hpc = "do_GET"
    /\ LET h == do_GET_headers(Handler)
       IN  IF ~h.has
           THEN /\ EndConnection("exception")
                /\ UNCHANGED << mainVars, clientVars >>
           ELSE LET list == h.list \o << << CR, LF >>, do_GET_first_part >>
                IN  /\ has_buffer' = TRUE
                    /\ headers_buffer' = list
                    /\ close_connection' = h.cc
                    /\ StartWrite(Join(list))
                    /\ hpc' = "get_w1"
                    /\ UNCHANGED << mainVars, clientVars, active, request_version,
                                    command, connection, sends, reqs, served,
                                    partials, last_end >>

\* One send() of sendall: k bytes leave, the rest stays to be sent.
Send(k) ==
    /\ pc = "serve"
    /\ active > 0
    /\ hpc \in WritePositions
    /\ out # << >>
    /\ sends' = Append(sends, [ call |-> Len(calls), asked |-> Len(out),
                                bytes |-> SubSeq(out, 1, k) ])
    /\ out' = sendall_rest(out, k)
    /\ partials' = IF k < Len(out) THEN partials + 1 ELSE partials
    /\ UNCHANGED << mainVars, clientVars, active, hpc, handlerVars, calls, reqs,
                    served, last_end >>

\* send() fails (the peer reset the connection): the exception ends the handler.
SendError ==
    /\ pc = "serve"
    /\ active > 0
    /\ hpc \in WritePositions
    /\ out # << >>
    /\ EndConnection("send_error")
    /\ UNCHANGED << mainVars, clientVars >>

\* do_GET after the first write: the buffer is reset, the remainder written.
do_GET_second ==
    /\ pc = "serve"
    /\ active > 0
    /\ hpc = "get_w1"
    /\ out = << >>
    /\ headers_buffer' = do_GET_reset(headers_buffer)
    /\ StartWrite(do_GET_remainder)
    /\ hpc' = "get_w2"
    /\ UNCHANGED << mainVars, clientVars, active, close_connection, request_version,
                    command, connection, has_buffer, sends, reqs, served, partials,
                    last_end >>

\* The method returns to handle_one_request: the response is complete.
\* (flush_headers empties the buffer once its write has returned.)
MethodReturn ==
    /\ pc = "serve"
    /\ active > 0
    /\ hpc \in { "head_w", "get_w2" }
    /\ out = << >>
    /\ served' = served + 1
    /\ hpc' = "returned"
    /\ headers_buffer' = IF hpc = "head_w" THEN << >> ELSE headers_buffer
    /\ UNCHANGED << mainVars, clientVars, active, close_connection, request_version,
                    command, connection, has_buffer, out, calls, sends, reqs,
                    partials, last_end >>

\* handle(): while not self.close_connection: handle_one_request()
HandleLoop ==
    /\ pc = "serve"
    /\ active > 0
    /\ hpc = "returned"
    /\ IF close_connection
       THEN EndConnection("close_connection")
       ELSE /\ hpc' = "read"
            /\ UNCHANGED << active, handlerVars, out, logVars, last_end >>
    /\ UNCHANGED << mainVars, clientVars >>

(***************************************************************************)
(* Signals and shutdown.  SIGTERM runs signal_handler, which raises        *)
(* SystemExit(0); SIGINT raises KeyboardInterrupt.  Either is raised in    *)
(* the main thread wherever it is.                                         *)
(***************************************************************************)
SignalNames == { "SIGTERM", "SIGINT" }

\* Exit statuses of an interpreter ended by an uncaught KeyboardInterrupt.
InterruptStatuses == { 1, 130 }

\* What the signal raises: signal_handler's sys.exit(0), or KeyboardInterrupt.
signal_handler(sig) == IF sig = "SIGTERM" THEN "SystemExit" ELSE "KeyboardInterrupt"

\* A try block without the except clause.
after_except_missing(exc) == exc

\* try: serve_forever() / except KeyboardInterrupt: pass -- what is left of
\* the exception when the finally block starts.
after_except(exc) == IF exc = "KeyboardInterrupt" THEN "none" ELSE exc

Signal(sig) ==
    /\ pc # "exited"
    /\ Len(signals) < MaxSignals
    /\ signals' = Append(signals, sig)
    /\ IF pc = "serve"
       THEN \* in the try block; a running handler is unwound, its request shut down
            /\ pc' = "finally"
            /\ pending' = after_except(signal_handler(sig))
            /\ IF active > 0
               THEN EndConnection("shutdown")
               ELSE UNCHANGED << active, hpc, handlerVars, out, logVars, last_end >>
       ELSE \* inside or after the finally block: nothing catches it
            /\ pc' = "unwind"
            /\ pending' = signal_handler(sig)
            /\ UNCHANGED << active, hpc, handlerVars, out, logVars, last_end >>
    /\ UNCHANGED << listening, server_closed, exit_code, clientVars >>

\* finally: server.server_close(); the connections in the backlog are dropped.
server_close ==
    /\ pc = "finally"
    /\ pc' = "unwind"
    /\ listening' = FALSE
    /\ server_closed' = TRUE
    /\ backlog' = 0
    /\ UNCHANGED << exit_code, pending, signals, opened, active, hpc, handlerVars,
                    out, logVars, last_end >>

\* The interpreter exits with the status of what is still propagating.
Exit(status) ==
    /\ pc = "unwind"
    /\ status \in (IF pending = "KeyboardInterrupt" THEN InterruptStatuses ELSE { 0 })
    /\ pc' = "exited"
    /\ exit_code' = status
    /\ listening' = FALSE
    /\ backlog' = 0
    /\ UNCHANGED << server_closed, pending, signals, opened, active, hpc,
                    handlerVars, out, logVars, last_end >>

Next ==
    \/ Connect
    \/ Accept
    \/ \E r \in Requests : ReadRequest(r)
    \/ ClientEOF
    \/ \E now \in Clock : do_HEAD(now)
    \/ do_GET
    \/ \E k \in SendSizes : Send(k)
    \/ SendError
    \/ do_GET_second
    \/ MethodReturn
    \/ HandleLoop
    \/ \E sig \in SignalNames : Signal(sig)
    \/ server_close
    \/ \E status \in InterruptStatuses \cup { 0 } : Exit(status)

Spec == Init /\ [][Next]_vars

\* The main thread's straight-line code runs on: the finally block and the exit.
FairSpec ==
    /\ Spec
    /\ WF_vars(server_close)
    /\ WF_vars(\E status \in InterruptStatuses \cup { 0 } : Exit(status))

(***************************************************************************)
(* What a receiver makes of the bytes: the header block ends at the first  *)
(* blank line, and a chunked body is decoded chunk by chunk (hex size      *)
(* line, CRLF, payload, CRLF; a zero size ends the body).                  *)
(***************************************************************************)
IsHex(x) == (x >= 48 /\ x <= 57) \/ (x >= 97 /\ x <= 102) \/ (x >= 65 /\ x <= 70)
HexVal(x) == IF x <= 57 THEN x - 48 ELSE IF x >= 97 THEN x - 87 ELSE x - 55

RECURSIVE ReadSize(_, _, _, _)
\* Reads a size line from position i: "size" with its value and the position
\* after its CRLF, "boundary" when no byte is left before it starts, "partial"
\* when the bytes end inside it, else "error".
ReadSize(bytes, i, acc, digits) ==
    IF i > Len(bytes)
    THEN [ st |-> IF digits = 0 THEN "boundary" ELSE "partial", val |-> acc, next |-> i ]
    ELSE IF IsHex(bytes[i])
    THEN ReadSize(bytes, i + 1, 16 * acc + HexVal(bytes[i]), digits + 1)
    ELSE IF bytes[i] = CR /\ digits > 0
    THEN IF i + 1 > Len(bytes) THEN [ st |-> "partial", val |-> acc, next |-> i ]
         ELSE IF bytes[i + 1] = LF THEN [ st |-> "size", val |-> acc, next |-> i + 2 ]
         ELSE [ st |-> "error", val |-> acc, next |-> i ]
    ELSE [ st |-> "error", val |-> acc, next |-> i ]

RECURSIVE DecodeFrom(_, _, _)
DecodeFrom(bytes, i, chunks) ==
    LET sz == ReadSize(bytes, i, 0, 0)
        stop(st) == [ state |-> st, chunks |-> chunks, rest |-> << >> ]
    IN  IF sz.st # "size" THEN stop(sz.st)
        ELSE IF sz.val = 0
        THEN IF sz.next + 1 > Len(bytes) THEN stop("partial")
             ELSE IF bytes[sz.next] = CR /\ bytes[sz.next + 1] = LF
             THEN [ state |-> "done", chunks |-> chunks,
                    rest |-> SubSeq(bytes, sz.next + 2, Len(bytes)) ]
             ELSE stop("error")
        ELSE LET after == sz.next + sz.val
             IN  IF after + 1 > Len(bytes) THEN stop("partial")
                 ELSE IF bytes[after] = CR /\ bytes[after + 1] = LF
                 THEN DecodeFrom(bytes, after + 2,
                                 Append(chunks, SubSeq(bytes, sz.next, after - 1)))
                 ELSE stop("error")

\* state: "done" (terminating chunk and final CRLF read), "boundary" (the bytes
\* end exactly between two chunks), "partial" (they end inside a chunk), "error".
ChunkDecode(bytes) == DecodeFrom(bytes, 1, << >>)

\* The body of a response with a header block: what follows the first blank line.
BlankLines(bytes) ==
    { i \in 1..(Len(bytes) - 3) :
        bytes[i] = CR /\ bytes[i + 1] = LF /\ bytes[i + 2] = CR /\ bytes[i + 3] = LF }
BodyOf(bytes) ==
    LET i == CHOOSE x \in BlankLines(bytes) : \A y \in BlankLines(bytes) : x <= y
    IN  SubSeq(bytes, i + 4, Len(bytes))

(***************************************************************************)
(* The serialized responses as the specification describes them: status    *)
(* line, the profile's headers in catalog order, blank line, body.         *)
(***************************************************************************)
RECURSIVE HeaderLines(_)
HeaderLines(table) ==
    IF table = << >> THEN << >>
    ELSE Encode(Head(table)[1] \o ": " \o Head(table)[2] \o "\r\n") \o HeaderLines(Tail(table))

StatusLine200 == Encode("HTTP/1.1 200 OK\r\n")
DataHead == StatusLine200 \o HeaderLines(headers) \o << CR, LF >>
DataResponse == DataHead \o data
StatusResponse == StatusLine200 \o HeaderLines(stats_headers) \o << CR, LF >>

\* The length of the first TCP segment the program aims at.
FirstWriteLen == 520
\* The offset in the body where the two writes are split.
BodySplit == 15

\* The write calls of the i-th request of the connection, in order.
WritesOf(i) ==
    LET mine == SelectSeq(calls, LAMBDA w : w.req = i)
    IN  [ k \in 1..Len(mine) |-> mine[k].bytes ]

\* The bytes send() has put on the wire for the current response.
RECURSIVE SentBytes(_)
SentBytes(list) == IF list = << >> THEN << >> ELSE Head(list).bytes \o SentBytes(Tail(list))

IsPrefix(x, y) == Len(x) <= Len(y) /\ x = SubSeq(y, 1, Len(x))

Completed(i) == i <= served
IsGet(i) == reqs[i].method = "GET"
IsHead(i) == reqs[i].method = "HEAD"
Versioned(i) == reqs[i].words = 3

TwoWrites == << SubSeq(DataResponse, 1, Len(DataHead) + BodySplit),
                SubSeq(DataResponse, Len(DataHead) + BodySplit + 1, Len(DataResponse)) >>

\* The writes of request i are the prefix then the remainder, nothing else
\* between them, and every byte of the response goes out once.
TwoWritesInOrder(i) ==
    /\ IsPrefix(WritesOf(i), TwoWrites)
    /\ Completed(i) => WritesOf(i) = TwoWrites
    /\ \A j, k, l \in 1..Len(calls) :
          (j < k /\ k < l /\ calls[j].req = i /\ calls[l].req = i) => calls[k].req = i
    /\ (Completed(i) /\ i = Len(reqs)) => SentBytes(sends) = DataResponse

FirstWriteBody == headers_buffer[Len(headers_buffer)]

(***************************************************************************)
(* C2 (as stated): the split between the two writes of a GET falls         *)
(* strictly inside the first chunk of the body, so the first write ends    *)
(* with a partial chunk.                                                   *)
(***************************************************************************)
C2_SplitInsideFirstChunk ==
    (hpc = "get_w1") => ChunkDecode(FirstWriteBody).state = "partial"

(***************************************************************************)
(* C2 (amended): the split falls exactly at the end of the first chunk:    *)
(* the body bytes of the first write are one complete chunk (size line,    *)
(* payload, CRLF) and nothing of the next one, which the second write      *)
(* starts.                                                                 *)
(***************************************************************************)
C2_SplitAtFirstChunkEnd ==
    (hpc = "get_w1") =>
        LET first == ChunkDecode(FirstWriteBody)
            whole == ChunkDecode(data)
        IN  /\ first.state = "boundary"
            /\ Len(first.chunks) = 1
            /\ first.chunks[1] = whole.chunks[1]
            /\ Len(whole.chunks) > 1
            /\ FirstWriteBody \o do_GET_remainder = data
            /\ request_version # "HTTP/0.9" => BodyOf(calls[Len(calls)].bytes) = FirstWriteBody

C2_Witness ==
    /\ hpc = "get_w1"
    /\ out = << >>
    /\ request_version = "HTTP/1.1"
    /\ Len(FirstWriteBody) = BodySplit

(***************************************************************************)
(* C3 (as stated): the response to every HEAD request is status 200, then  *)
(* exactly the entries of stats_headers in order (none added, removed or   *)
(* duplicated), the blank line and an empty body, in a single write.       *)
(***************************************************************************)
C3_HeadExactlyStatsHeaders ==
    \A i \in 1..Len(reqs) : (IsHead(i) /\ Completed(i)) => WritesOf(i) = << StatusResponse >>

C5_NoSendAfterShortSend ==
    \A i \in 1..Len(sends) : Len(sends[i].bytes) < sends[i].asked => i = Len(sends)

(***************************************************************************)
(* C6 (as stated): once SIGTERM or a keyboard interrupt has been received, *)
(* the process ends only with server_close executed and exit code 0.       *)
(***************************************************************************)
C6_AnySignalCleanExit ==
    (pc = "exited" /\ signals # << >>) => (server_closed /\ exit_code = 0)

\* The process has ended with the listening socket closed and status 0.
CleanExit == pc = "exited" /\ server_closed /\ ~listening /\ exit_code = 0

(***************************************************************************)
(* C6 (amended): after the first signal, received idle or while a request  *)
(* is being handled, no connection is accepted any more, and, unless a     *)
(* further signal arrives before the shutdown has finished, the listening  *)
(* socket is eventually closed by server_close and the process ends with   *)
(* exit code 0.                                                            *)
(***************************************************************************)
C6_OneSignalCleanExit ==
    /\ [][signals # << >> => active' <= active]_vars
    /\ [](Len(signals) = 1 => <>(Len(signals) > 1 \/ CleanExit))

\* A single signal arrived while a request was being handled; the exit is clean.
C6_Witness ==
    /\ CleanExit
    /\ Len(signals) = 1
    /\ last_end = "shutdown"

\* The body of the response to the latest request, as a receiver reads it.
BodySent == BodyOf(Join(WritesOf(Len(reqs))))
GetAnswered == hpc = "returned" /\ command = "GET" /\ request_version # "HTTP/0.9"

(***************************************************************************)
(* C7 (as stated): the data-profile body is one data chunk carrying the    *)
(* whole payload, then the zero-length chunk and the final CRLF, with no   *)
(* bytes left over.                                                        *)
(***************************************************************************)
C7_OneDataChunk ==
    GetAnswered =>
        /\ BodySent = data
        /\ ChunkDecode(BodySent).state = "done"
        /\ Len(ChunkDecode(BodySent).chunks) = 1
        /\ ChunkDecode(BodySent).rest = << >>

(***************************************************************************)
(* C7 (amended): the data-profile body is two data chunks, the first of 10 *)
(* payload bytes and the second of 52, then the zero-length chunk and the  *)
(* final CRLF, with no bytes left over.                                    *)
(***************************************************************************)
C7_TwoDataChunks ==
    GetAnswered =>
        /\ BodySent = data
        /\ ChunkDecode(BodySent).state = "done"
        /\ Len(ChunkDecode(BodySent).chunks) = 2
        /\ Len(ChunkDecode(BodySent).chunks[1]) = 10
        /\ Len(ChunkDecode(BodySent).chunks[2]) = 52
        /\ ChunkDecode(BodySent).rest = << >>

C7_Witness == GetAnswered /\ Len(BodySent) = 78

\* An HTTP/1.1 request that did not ask to close has been answered.
KeepAliveAnswered ==
    /\ hpc = "returned"
    /\ request_version = "HTTP/1.1"
    /\ Lower(connection) # "close"

(***************************************************************************)
(* C8: after a completed HEAD or GET response to an HTTP/1.1 request that  *)
(* did not ask to close, the server keeps the connection and goes back to  *)
(* reading the next request on it; from there the connection ends only by  *)
(* the client closing or the server shutting down.                         *)
(***************************************************************************)
C8_KeepAlive ==
    /\ [][(KeepAliveAnswered /\ pc' = "serve")
            => (active' = active /\ hpc' \in { "returned", "read" } /\ reqs' = reqs)]_vars
    /\ [][(hpc = "read" /\ active' < active) => last_end' \in { "client_eof", "shutdown" }]_vars
    /\ [](hpc = "read" => (active = 1 /\ pc = "serve"))

\* Two requests were answered on one connection, the second an HTTP/1.1 one
\* that did not ask to close, and the handler is reading the next request.
C8_Witness ==
    /\ hpc = "read"
    /\ served = 2
    /\ request_version = "HTTP/1.1"
    /\ Lower(connection) # "close"
    /\ ~close_connection

(***************************************************************************)
(* C9: at most one connection is being serviced at any moment; a           *)
(* connection is accepted only when no handler is running, so writes       *)
(* belong to the one accepted connection.                                  *)
(***************************************************************************)
C9_OneConnectionAtATime ==
    /\ [](active <= 1)
    /\ [](hpc # "none" <=> active = 1)
    /\ [][active' > active => (hpc = "none" /\ active = 0)]_vars
    /\ [][calls' # calls => active' >= 1 \/ calls' = << >>]_vars

\* A second connection waits in the backlog while the first is being written to.
C9_Witness ==
    /\ active = 1
    /\ backlog >= 1
    /\ hpc = "get_w2"
    /\ out # << >>

\* The lengths and the first-write content of the writes of request i.
WriteLengths(i) ==
    LET w == WritesOf(i)
    IN  /\ Len(w) >= 1 => /\ Len(w[1]) = FirstWriteLen
                          /\ w[1] = DataHead \o SubSeq(data, 1, BodySplit)
        /\ Len(w) >= 2 => Len(w[2]) = Len(data) - BodySplit
        /\ Completed(i) => Len(w) = 2

====
